---- MODULE Spec2Model ----
(***************************************************************************)
(* Model of the IRsinn controller layer (custom_components/irsinn):        *)
(*   - get_controller and the encoding validation of the controller        *)
(*     classes (controller.py),                                            *)
(*   - ZHAController.learn, the bounded poll loop that captures a learned  *)
(*     IR code, and its caller IRsinnRemote.async_learn_command,           *)
(*   - Helper.pronto2lirc and Helper.lirc2broadlink (__init__.py),         *)
(*   - send of the six controller classes and its caller                   *)
(*     IRsinnRemote.async_send_command (remote.py).                        *)
(* Optional values (Python None / a value) are sequences of length 0 / 1.  *)
(***************************************************************************)
EXTENDS Integers, Sequences, FiniteSets, TLC

\* ---------------------------------------------------------------- bounds
MaxTimeout == 3      \* largest timeout passed to learn()
MaxIoDelay == 1      \* largest clock advance during one attribute read
MaxWords == 6        \* largest number of 16-bit words of a Pronto input
MaxWord == 1         \* largest word value of the generated Pronto inputs
MaxPulses == 3       \* largest number of pulses passed to lirc2broadlink
MaxTokens == 2       \* largest number of tokens of a command list
MaxNames == 2        \* largest number of names passed to async_send_command
MaxDelay == 1        \* largest configured delay between commands
MaxPowerCalls == 2   \* largest number of turn_on / turn_off calls
MaxConTimeout == 2   \* largest timeout of two concurrent learn calls
MaxCaptures == 1     \* largest number of codes the device captures
MaxServiceCalls == 2 \* largest number of service calls handled

\* ---------------------------------------------------------------- values
None == <<>>
Some(v) == <<v>>

\* Python truthiness of an optional string: None and "" are falsy.
Truthy(x) == x # None /\ x[1] # ""

\* ------------------------------------------------- controller.py constants
BROADLINK_CONTROLLER == "Broadlink"
XIAOMI_CONTROLLER == "Xiaomi"
MQTT_CONTROLLER == "MQTT"
LOOKIN_CONTROLLER == "LOOKin"
ESPHOME_CONTROLLER == "ESPHome"
ZHA_CONTROLLER == "ZHA"

ENC_BASE64 == "Base64"
ENC_HEX == "Hex"
ENC_PRONTO == "Pronto"
ENC_RAW == "Raw"

BROADLINK_COMMANDS_ENCODING == {ENC_BASE64, ENC_HEX, ENC_PRONTO}
XIAOMI_COMMANDS_ENCODING == {ENC_PRONTO, ENC_RAW}
MQTT_COMMANDS_ENCODING == {ENC_RAW}
LOOKIN_COMMANDS_ENCODING == {ENC_PRONTO, ENC_RAW}
ESPHOME_COMMANDS_ENCODING == {ENC_RAW}
ZHA_COMMANDS_ENCODING == {ENC_BASE64, ENC_RAW}

\* The class attribute supported_encodings of each controller class.
supported_encodings(cls) ==
    CASE cls = "BroadlinkController" -> BROADLINK_COMMANDS_ENCODING
      [] cls = "XiaomiController" -> XIAOMI_COMMANDS_ENCODING
      [] cls = "MQTTController" -> MQTT_COMMANDS_ENCODING
      [] cls = "LookinController" -> LOOKIN_COMMANDS_ENCODING
      [] cls = "ESPHomeController" -> ESPHOME_COMMANDS_ENCODING
      [] cls = "ZHAController" -> ZHA_COMMANDS_ENCODING
      [] OTHER -> {}

\* The dict built inside get_controller: kind string -> controller class.
controllers ==
    (BROADLINK_CONTROLLER :> "BroadlinkController")
    @@ (XIAOMI_CONTROLLER :> "XiaomiController")
    @@ (MQTT_CONTROLLER :> "MQTTController")
    @@ (LOOKIN_CONTROLLER :> "LookinController")
    @@ (ESPHOME_CONTROLLER :> "ESPHomeController")
    @@ (ZHA_CONTROLLER :> "ZHAController")

\* Variant: every encoding is accepted.
check_encoding_any(cls, encoding) == TRUE

\* AbstractController.check_encoding: TRUE when it returns, FALSE when it
\* raises ValueError.
check_encoding(cls, encoding) == encoding \in supported_encodings(cls)

NoExc == "none"
ExcController == "ValueError: The controller is not supported."
ExcEncoding == "ValueError: The encoding is not supported."

\* Variant: an unknown kind falls back to a default class.
lookup_controller_default(controller_kind) ==
    IF controller_kind \in DOMAIN controllers
    THEN Some(controllers[controller_kind])
    ELSE Some("BroadlinkController")

\* controllers[controller] of get_controller: the class, or None on KeyError.
lookup_controller(controller_kind) ==
    IF controller_kind \in DOMAIN controllers
    THEN Some(controllers[controller_kind])
    ELSE None

\* AbstractController.__init__: stores the fields, then check_encoding.
AbstractController_init(cls, controller_kind, encoding) ==
    IF check_encoding(cls, encoding)
    THEN [exc |-> NoExc,
          obj |-> Some([cls |-> cls, controller |-> controller_kind,
                        encoding |-> encoding])]
    ELSE [exc |-> ExcEncoding, obj |-> None]

\* get_controller: the outcome of one call, an exception or an instance.
get_controller(controller_kind, encoding) ==
    LET found == lookup_controller(controller_kind) IN
    IF found = None
    THEN [exc |-> ExcController, obj |-> None]
    ELSE AbstractController_init(found[1], controller_kind, encoding)

\* Inputs of get_controller: the registered kinds, the spec's spelling
\* "Lookin" and another unregistered string; the four encodings and an
\* unknown one.
KindInputs == DOMAIN controllers \cup {"Lookin", "Tuya"}
EncodingInputs == {ENC_BASE64, ENC_HEX, ENC_PRONTO, ENC_RAW, "NEC"}

\* ------------------------------------------------------------ learn inputs
CodeValues == {"", "A", "B"}
OptCode == {None} \cup {Some(v) : v \in CodeValues}

\* Responses of the get_zigbee_cluster_attribute call: the call raises
\* ("error"), returns a non-dict ("nondict"), a dict with neither key
\* ("empty"), {"value": v} ("value"), {"0": {"value": v}} ("zero_dict") or
\* {"0": v} ("zero_plain").
Responses ==
    {[shape |-> s, v |-> None] : s \in {"error", "nondict", "empty"}}
    \cup {[shape |-> s, v |-> v] :
            s \in {"value", "zero_dict", "zero_plain"}, v \in OptCode}

\* ZHAController.learn._read_code applied to the response of the call.
read_code(resp) ==
    CASE resp.shape = "error" -> None
      [] resp.shape = "value" -> resp.v
      [] resp.shape = "zero_dict" -> resp.v
      [] resp.shape = "zero_plain" -> resp.v
      [] OTHER -> None


\* asyncio.sleep(1) in the poll loop.
PollInterval == 1

\* Variant: the loop does not sleep between two reads.
SleepUntil_NoSleep(t) == t

\* The clock when asyncio.sleep(1) started at t returns.
SleepUntil(t) == t + PollInterval

\* Variant: the loop does not look at the deadline.
LoopCond_NoDeadline(t, deadline) == TRUE

\* The condition of `while time.monotonic() < end`.
LoopCond(t, deadline) == t < deadline

\* Variant: the comparison with the baseline is missing.
IsNewCode_NoBaseline(c, initial) == Truthy(c)

\* The condition of `if code and code != initial_code`.
IsNewCode(c, initial) == Truthy(c) /\ c # initial

\* IRsinnRemote._commands at construction (device_data["commands"]); a
\* stored command is a single token or a list of tokens.
Single(tok) == [list |-> FALSE, toks |-> <<tok>>]
List(toks) == [list |-> TRUE, toks |-> toks]
InitCommands == ("turn_on" :> Single("on_cmd"))

\* kwargs of async_learn_command: "command" and "key", each absent/None,
\* empty or a name.
NameInputs == {None, Some(""), Some("turn_on"), Some("vol")}

\* `a or b` on optional strings.
Or(a, b) == IF Truthy(a) THEN a ELSE b

\* ------------------------------------------------------ Helper.pronto2lirc
\* A byte string is a sequence of numbers in 0..255.
\* codes = [int(hexlify(pronto[i:i+2]), 16) for i in range(0, len, 2)]:
\* big-endian 16-bit words; a trailing single byte is a word of its own.
Codes(b) ==
    [k \in 1 .. ((Len(b) + 1) \div 2) |->
        IF 2 * k <= Len(b) THEN b[2 * k - 1] * 256 + b[2 * k]
        ELSE b[2 * k - 1]]

\* int(round(code / frequency)) with frequency = 1 / (codes[1] * 0.241246),
\* that is code * codes[1] * 241246 / 1000000 rounded to the nearest
\* integer. The product is split at 1000 so that no intermediate value
\* leaves the 32-bit integers of the checker (code * codes[1] < 8900000).
\* An exact tie needs code * codes[1] = 250000 mod 500000; the source then
\* rounds whatever its floating-point quotient is: for the tie among the
\* model's inputs, 500 / (1 / (500 * 0.241246)) = 60311.49999999999, it
\* rounds down (TiesBelow); any other tie is rounded to even.
TiesBelow == {<<500, 500>>}

\* Variant: int() without round().
PulseWidth_Trunc(c, unit) ==
    LET x == c * unit
        xh == x \div 1000
        xl == x % 1000
        q1 == (xh * 241246) \div 1000
        r1 == (xh * 241246) % 1000
        low == r1 * 1000 + xl * 241246
    IN q1 + low \div 1000000

PulseWidth(c, unit) ==
    LET x == c * unit
        xh == x \div 1000
        xl == x % 1000
        q1 == (xh * 241246) \div 1000
        r1 == (xh * 241246) % 1000
        low == r1 * 1000 + xl * 241246
        q == q1 + low \div 1000000
        r == low % 1000000
    IN IF 2 * r < 1000000 THEN q
       ELSE IF 2 * r > 1000000 THEN q + 1
       ELSE IF <<c, unit>> \in TiesBelow THEN q
       ELSE IF q % 2 = 0 THEN q ELSE q + 1

Raise(e) == [status |-> e, pulses |-> <<>>]

\* Variant: the length check forgets the factor 2.
pronto2lirc_WrongLength(b) ==
    LET codes == Codes(b) IN
    IF Len(codes) = 0 THEN Raise("IndexError")
    ELSE IF codes[1] # 0 THEN Raise("ValueError")
    ELSE IF Len(codes) < 4 THEN Raise("IndexError")
    ELSE IF Len(codes) # 4 + (codes[3] + codes[4]) THEN Raise("ValueError")
    ELSE IF codes[2] = 0 THEN Raise("ZeroDivisionError")
    ELSE [status |-> "ok",
          pulses |-> [i \in 1 .. (Len(codes) - 4) |->
                         PulseWidth(codes[4 + i], codes[2])]]

\* Helper.pronto2lirc; TLA+ sequences count from 1, so codes[0..3] of the
\* source are codes[1..4] here. codes[0] of an empty input and codes[2],
\* codes[3] of an input shorter than 4 words raise IndexError, codes[1] = 0
\* raises ZeroDivisionError.
pronto2lirc(b) ==
    LET codes == Codes(b) IN
    IF Len(codes) = 0 THEN Raise("IndexError")
    ELSE IF codes[1] # 0 THEN Raise("ValueError")
    ELSE IF Len(codes) < 4 THEN Raise("IndexError")
    ELSE IF Len(codes) # 4 + 2 * (codes[3] + codes[4]) THEN Raise("ValueError")
    ELSE IF codes[2] = 0 THEN Raise("ZeroDivisionError")
    ELSE [status |-> "ok",
          pulses |-> [i \in 1 .. (Len(codes) - 4) |->
                         PulseWidth(codes[4 + i], codes[2])]]

\* Inputs of the translation: the byte strings of every word sequence of
\* at most MaxWords words over WordValues, with or without one trailing
\* byte, the worked example 0000 0064 0001 0000 0011 0019 and an input
\* whose pulses are exact ties, 0000 01F4 0001 0000 01F4 01F4.
WordValues == (0 .. MaxWord) \cup {256}
WordsToBytes(ws) ==
    [i \in 1 .. (2 * Len(ws)) |->
        IF i % 2 = 1 THEN ws[(i + 1) \div 2] \div 256 ELSE ws[i \div 2] % 256]
ExampleWords == <<0, 100, 1, 0, 17, 25>>
TieWords == <<0, 500, 1, 0, 500, 500>>
WordInputs ==
    UNION {[1 .. n -> WordValues] : n \in 0 .. MaxWords}
    \cup {ExampleWords, TieWords}
ProntoInputs ==
    {WordsToBytes(ws) : ws \in WordInputs}
    \cup {WordsToBytes(ws) \o <<1>> : ws \in WordInputs}

\* ---------------------------------------------------- Helper.lirc2broadlink
\* int(pulse * 269 / 8192) for a non-negative pulse.
Ticks(pulse) == (pulse * 269) \div 8192

\* Variant: the 16-bit value is packed low byte first.
PackPulse_LittleEndian(pulse) ==
    LET t == Ticks(pulse) IN
    IF t < 256 THEN [status |-> "ok", bytes |-> <<t>>]
    ELSE IF t <= 65535
         THEN [status |-> "ok", bytes |-> <<0, t % 256, t \div 256>>]
         ELSE [status |-> "struct.error", bytes |-> <<>>]

\* The bytes one pulse adds to array: struct.pack(">B", pulse) below 256,
\* else 0x00 and struct.pack(">H", pulse), which raises struct.error above
\* 65535.
PackPulse(pulse) ==
    LET t == Ticks(pulse) IN
    IF t < 256 THEN [status |-> "ok", bytes |-> <<t>>]
    ELSE IF t <= 65535
         THEN [status |-> "ok", bytes |-> <<0, t \div 256, t % 256>>]
         ELSE [status |-> "struct.error", bytes |-> <<>>]

\* The for loop of lirc2broadlink: array after all pulses, or the error of
\* the first pulse that cannot be packed.
RECURSIVE PackArray(_)
PackArray(ps) ==
    IF ps = <<>> THEN [status |-> "ok", bytes |-> <<>>]
    ELSE LET head == PackPulse(ps[1]) IN
         IF head.status # "ok" THEN head
         ELSE LET rest == PackArray(Tail(ps)) IN
              IF rest.status # "ok" THEN rest
              ELSE [status |-> "ok", bytes |-> head.bytes \o rest.bytes]

Zeros(k) == [i \in 1 .. k |-> 0]

\* Variant: len(array) is packed high byte first.
Header_BigEndian(n) == <<38, 0, n \div 256, n % 256>>

\* bytearray([0x26, 0x00]) + struct.pack("<H", len(array)).
Header(n) == <<38, 0, n % 256, n \div 256>>

\* Variant: 16 - remainder bytes are appended whatever the remainder is.
Padding_Always(n) == Zeros(16 - ((n + 4) % 16))

\* The zero bytes appended to a packet of n bytes.
Padding(n) ==
    LET remainder == (n + 4) % 16 IN
    IF remainder # 0 THEN Zeros(16 - remainder) ELSE <<>>

\* Helper.lirc2broadlink: the packet, or the struct.error of a pulse or of
\* an array longer than 65535 bytes.
lirc2broadlink(ps) ==
    LET array == PackArray(ps) IN
    IF array.status # "ok" THEN [status |-> array.status, packet |-> <<>>]
    ELSE IF Len(array.bytes) > 65535
         THEN [status |-> "struct.error", packet |-> <<>>]
         ELSE LET body == Header(Len(array.bytes)) \o array.bytes \o <<13, 5>>
              IN [status |-> "ok", packet |-> body \o Padding(Len(body))]

\* Inputs of lirc2broadlink: the pulse sequences of at most MaxPulses pulses
\* over the pulses of the worked example and those around the one-byte and
\* the 16-bit limits of the scaled value (255|256 and 65535|65536).
PulseValues == {0, 410, 603, 7796, 7797, 1995802, 1995803}
PulseInputs == UNION {[1 .. n -> PulseValues] : n \in 0 .. MaxPulses}

\* ------------------------------------------------- text and byte encodings
\* A str is a sequence of one-character strings; bytes are numbers 0..255.
HexLower == <<"0", "1", "2", "3", "4", "5", "6", "7", "8", "9",
              "a", "b", "c", "d", "e", "f">>
HexUpper == <<"0", "1", "2", "3", "4", "5", "6", "7", "8", "9",
              "A", "B", "C", "D", "E", "F">>

\* The value of a hexadecimal digit of either case, -1 for any other
\* character.
HexVal(ch) ==
    IF \E i \in 1 .. 16 : HexLower[i] = ch
    THEN (CHOOSE i \in 1 .. 16 : HexLower[i] = ch) - 1
    ELSE IF \E i \in 1 .. 16 : HexUpper[i] = ch
         THEN (CHOOSE i \in 1 .. 16 : HexUpper[i] = ch) - 1
         ELSE -1

\* The bytes of an even-length string of hexadecimal digits.
HexPairs(s) ==
    [k \in 1 .. (Len(s) \div 2) |->
        16 * HexVal(s[2 * k - 1]) + HexVal(s[2 * k])]
IsHex(s) == Len(s) % 2 = 0 /\ \A i \in 1 .. Len(s) : HexVal(s[i]) >= 0

\* binascii.unhexlify(item): binascii.Error on an odd length or on a
\* character that is not a hexadecimal digit (a space included).
unhexlify(s) ==
    IF IsHex(s) THEN [status |-> "ok", bytes |-> HexPairs(s)]
    ELSE [status |-> "binascii.Error", bytes |-> <<>>]

\* item.replace(" ", "").
RemoveSpaces(s) == SelectSeq(s, LAMBDA ch : ch # " ")

\* bytearray.fromhex(pronto) on a string without spaces: ValueError on an
\* odd length or on a character that is not a hexadecimal digit.
fromhex(s) ==
    IF IsHex(s) THEN [status |-> "ok", bytes |-> HexPairs(s)]
    ELSE [status |-> "ValueError", bytes |-> <<>>]

B64Alphabet ==
    <<"A", "B", "C", "D", "E", "F", "G", "H", "I", "J", "K", "L", "M",
      "N", "O", "P", "Q", "R", "S", "T", "U", "V", "W", "X", "Y", "Z",
      "a", "b", "c", "d", "e", "f", "g", "h", "i", "j", "k", "l", "m",
      "n", "o", "p", "q", "r", "s", "t", "u", "v", "w", "x", "y", "z",
      "0", "1", "2", "3", "4", "5", "6", "7", "8", "9", "+", "/">>
B64Char(v) == B64Alphabet[v + 1]

\* b64encode(raw).decode("utf-8"): four characters for every three bytes,
\* the last group padded with "=".
RECURSIVE b64encode(_)
b64encode(b) ==
    IF Len(b) = 0 THEN <<>>
    ELSE IF Len(b) = 1
    THEN <<B64Char(b[1] \div 4), B64Char((b[1] % 4) * 16), "=", "=">>
    ELSE IF Len(b) = 2
    THEN <<B64Char(b[1] \div 4),
           B64Char((b[1] % 4) * 16 + b[2] \div 16),
           B64Char((b[2] % 16) * 4), "=">>
    ELSE <<B64Char(b[1] \div 4),
           B64Char((b[1] % 4) * 16 + b[2] \div 16),
           B64Char((b[2] % 16) * 4 + b[3] \div 64),
           B64Char(b[3] % 64)>> \o b64encode(SubSeq(b, 4, Len(b)))

\* str(command) as an f-string formats it: a str as it is, a list as
\* "[" + ", ".join(repr(item)) + "]" (the model's strings hold no quote and
\* no backslash, so repr(item) is the item between single quotes).
RECURSIVE JoinRepr(_)
JoinRepr(toks) ==
    IF toks = <<>> THEN <<>>
    ELSE IF Len(toks) = 1 THEN <<"'">> \o toks[1] \o <<"'">>
    ELSE <<"'">> \o toks[1] \o <<"'", ",", " ">> \o JoinRepr(Tail(toks))
PyStr(command) ==
    IF command.list THEN <<"[">> \o JoinRepr(command.toks) \o <<"]">>
    ELSE command.toks[1]

\* json.loads(command) for the strings of the model: a str that is an
\* integer literal between optional spaces gives the integer, any other str
\* of the model raises JSONDecodeError, a list raises TypeError.
IsDigits(s) ==
    /\ Len(s) >= 1
    /\ \A i \in 1 .. Len(s) : HexVal(s[i]) \in 0 .. 9 /\ HexLower[HexVal(s[i]) + 1] = s[i]
    /\ Len(s) > 1 => s[1] # "0"
RECURSIVE DigitsValue(_)
DigitsValue(s) ==
    IF s = <<>> THEN 0
    ELSE 10 * DigitsValue(SubSeq(s, 1, Len(s) - 1)) + HexVal(s[Len(s)])
json_loads(command) ==
    IF command.list THEN [exc |-> "TypeError", value |-> 0]
    ELSE IF IsDigits(RemoveSpaces(command.toks[1]))
            /\ \A i, j \in 1 .. Len(command.toks[1]) :
                  (i < j /\ command.toks[1][i] # " "
                         /\ command.toks[1][j] # " ") =>
                     \A k \in i .. j : command.toks[1][k] # " "
         THEN [exc |-> NoExc,
               value |-> DigitsValue(RemoveSpaces(command.toks[1]))]
         ELSE [exc |-> "JSONDecodeError", value |-> 0]

\* ------------------------------------------------------- controller send
\* self._controller_data, the same for every controller of the model.
ControllerData == "bridge"

B64Prefix == <<"b", "6", "4", ":">>
ExcHexConv == "ValueError: Error while converting Hex to Base64 encoding"
ExcProntoConv ==
    "ValueError: Error while converting Pronto to Base64 encoding"

\* The body of the for loop of BroadlinkController.send up to the append:
\* the base64 text of one item, or the exception that leaves the loop. The
\* Pronto branch catches binascii.Error and ValueError only, so any other
\* exception of pronto2lirc or lirc2broadlink leaves send as it is.
Translate(encoding, item) ==
    IF encoding = ENC_HEX
    THEN LET raw == unhexlify(item) IN
         IF raw.status # "ok" THEN [exc |-> ExcHexConv, item |-> <<>>]
         ELSE [exc |-> NoExc, item |-> b64encode(raw.bytes)]
    ELSE IF encoding = ENC_PRONTO
    THEN LET pronto_bytes == fromhex(RemoveSpaces(item)) IN
         IF pronto_bytes.status # "ok"
         THEN [exc |-> ExcProntoConv, item |-> <<>>]
         ELSE LET lirc == pronto2lirc(pronto_bytes.bytes) IN
              IF lirc.status = "ValueError"
              THEN [exc |-> ExcProntoConv, item |-> <<>>]
              ELSE IF lirc.status # "ok"
              THEN [exc |-> lirc.status, item |-> <<>>]
              ELSE LET packet == lirc2broadlink(lirc.pulses) IN
                   IF packet.status # "ok"
                   THEN [exc |-> packet.status, item |-> <<>>]
                   ELSE [exc |-> NoExc, item |-> b64encode(packet.packet)]
    ELSE [exc |-> NoExc, item |-> item]

\* Variant: the item is appended without the marker.
Prefixed_None(item) == item

\* "b64:" + item.
Prefixed(item) == B64Prefix \o item

\* The for loop of BroadlinkController.send: the list commands, or the
\* exception of the first item that fails.
RECURSIVE BroadlinkCommands(_, _)
BroadlinkCommands(encoding, items) ==
    IF items = <<>> THEN [exc |-> NoExc, commands |-> <<>>]
    ELSE LET head == Translate(encoding, items[1]) IN
         IF head.exc # NoExc THEN [exc |-> head.exc, commands |-> <<>>]
         ELSE LET rest == BroadlinkCommands(encoding, Tail(items)) IN
              IF rest.exc # NoExc THEN rest
              ELSE [exc |-> NoExc,
                    commands |-> <<Prefixed(head.item)>> \o rest.commands]

\* `if not isinstance(command, list): command = [command]`.
Normalise(command) == IF command.list THEN command ELSE List(command.toks)

\* self._encoding.lower().
Lower(encoding) ==
    CASE encoding = ENC_BASE64 -> <<"b", "a", "s", "e", "6", "4">>
      [] encoding = ENC_HEX -> <<"h", "e", "x">>
      [] encoding = ENC_PRONTO -> <<"p", "r", "o", "n", "t", "o">>
      [] encoding = ENC_RAW -> <<"r", "a", "w">>

\* One call handed to the transport: hass.services.async_call(domain,
\* service, data), or requests.get(url) run by async_add_executor_job.
ServiceCall(domain, service, data) ==
    [domain |-> domain, service |-> service, data |-> data]
NoRequest == ServiceCall("none", "none", [none |-> TRUE])
Raises(e) == [exc |-> e, req |-> NoRequest]
Issues(req) == [exc |-> NoExc, req |-> req]

\* BroadlinkController.send up to the dispatch.
BroadlinkSend(encoding, delay_secs, command) ==
    LET r == BroadlinkCommands(encoding, Normalise(command).toks) IN
    IF r.exc # NoExc THEN Raises(r.exc)
    ELSE Issues(ServiceCall("remote", "send_command",
                    [entity_id |-> ControllerData,
                     command |-> r.commands,
                     delay_secs |-> delay_secs]))

\* XiaomiController.send up to the dispatch.
XiaomiSend(encoding, command) ==
    Issues(ServiceCall("remote", "send_command",
               [entity_id |-> ControllerData,
                command |-> Lower(encoding) \o <<":">> \o PyStr(command)]))

\* ZHAController.send up to the dispatch.
ZHASend(command) ==
    Issues(ServiceCall("zha", "issue_zigbee_cluster_command",
               [cluster_type |-> "in", endpoint_id |-> 1, command |-> 2,
                ieee |-> ControllerData, command_type |-> "server",
                params |-> [code |-> command], cluster_id |-> 57348]))

\* MQTTController.send up to the dispatch.
MQTTSend(command) ==
    Issues(ServiceCall("mqtt", "publish",
               [topic |-> ControllerData, payload |-> command]))

\* LookinController.send up to the dispatch; the url is kept as the parts
\* the f-string joins.
LookinSend(encoding, command) ==
    Issues(ServiceCall("requests", "get",
               [url |-> <<"http://", ControllerData, "/commands/ir/",
                          IF encoding = ENC_PRONTO
                          THEN Lower(encoding) \o <<"h", "e", "x">>
                          ELSE Lower(encoding),
                          "/", PyStr(command)>>]))

\* ESPHomeController.send up to the dispatch.
ESPHomeSend(command) ==
    LET parsed == json_loads(command) IN
    IF parsed.exc # NoExc THEN Raises(parsed.exc)
    ELSE Issues(ServiceCall("esphome", ControllerData,
                    [command |-> parsed.value]))

\* controller.send(command) up to the dispatch, by the class of the
\* instance: the exception raised before any dispatch, or the one call to
\* dispatch.
Request(ctl, delay_secs, command) ==
    CASE ctl.cls = "BroadlinkController" ->
            BroadlinkSend(ctl.encoding, delay_secs, command)
      [] ctl.cls = "XiaomiController" -> XiaomiSend(ctl.encoding, command)
      [] ctl.cls = "ZHAController" -> ZHASend(command)
      [] ctl.cls = "MQTTController" -> MQTTSend(command)
      [] ctl.cls = "LookinController" -> LookinSend(ctl.encoding, command)
      [] ctl.cls = "ESPHomeController" -> ESPHomeSend(command)

\* ------------------------------------------------------------ send inputs
\* The text of a Pronto code: its words as four hexadecimal digits each,
\* separated by spaces.
Hex4(w) ==
    <<HexLower[(w \div 4096) + 1], HexLower[((w \div 256) % 16) + 1],
      HexLower[((w \div 16) % 16) + 1], HexLower[(w % 16) + 1]>>
RECURSIVE ProntoText(_)
ProntoText(words) ==
    IF words = <<>> THEN <<>>
    ELSE IF Len(words) = 1 THEN Hex4(words[1])
    ELSE Hex4(words[1]) \o <<" ">> \o ProntoText(Tail(words))

\* Tokens: "00ff" (the spec's Hex example; as Pronto its first word is not
\* zero), "0F", "0" (odd length), "0g" (not hexadecimal), "", the Pronto
\* example, a Pronto code shorter than its preamble says, one with a zero
\* second word and one whose pulse does not fit 16 bits after scaling.
TokFF == <<"0", "0", "f", "f">>
TokExample == ProntoText(ExampleWords)
TokOverflow == ProntoText(<<0, 2900, 1, 0, 2900, 0>>)
Tokens ==
    {TokFF, <<"0", "F">>, <<"0">>, <<"0", "g">>, <<>>, TokExample,
     ProntoText(<<0, 100, 1, 0>>), ProntoText(<<0, 0, 0, 0>>), TokOverflow}

\* Arguments of send: one token, or a list of at most MaxTokens tokens.
SendInputs ==
    {Single(tok) : tok \in Tokens}
    \cup {List(toks) : toks \in UNION {[1 .. n -> Tokens] : n \in 0 .. MaxTokens}}

\* device_data["commands"] of the entity that sends.
SendCommands ==
    ("turn_on" :> Single(TokFF)) @@ ("volume_up" :> Single(<<"0">>))

\* Arguments of async_send_command: a name, or a list of at most MaxNames
\* names; "mute" is not in the table.
Names == {"turn_on", "volume_up", "mute"}
NameArgs ==
    {Single(n) : n \in Names}
    \cup {List(ns) : ns \in UNION {[1 .. k -> Names] : k \in 0 .. MaxNames}}

\* What the awaited dispatch does: it returns ("ok"), it returns a response
\* with an HTTP error status, which send does not look at (requests.get
\* only), or it raises one of the transport's errors.
TransportErrors == {"HomeAssistantError", "ConnectionError"}
Outcomes(ctl) ==
    {"ok"} \cup TransportErrors
    \cup (IF ctl.cls = "LookinController" THEN {"http_error"} ELSE {})

VARIABLES
    controller,    \* IRsinnRemote._controller: None or the instance
    ctorArgs,      \* arguments of the get_controller call made, or None
    ctorExc,       \* exception raised by get_controller
    log,           \* the hass.services.async_call calls issued, in order
    now,           \* time.monotonic()
    pc,            \* position inside ZHAController.learn
    timeout,       \* learn's timeout argument
    initial_code,  \* learn's local initial_code
    end,           \* learn's local end
    code,          \* learn's local code
    outcome,       \* how the poll loop was left
    ret,           \* value returned by learn
    exc,           \* exception raised by learn
    entPc,         \* position inside IRsinnRemote.async_learn_command
    entCmd,        \* async_learn_command's local command
    entExc,        \* exception that left async_learn_command
    commands,      \* IRsinnRemote._commands
    pronto,        \* argument of Helper.pronto2lirc
    presult,       \* outcome of Helper.pronto2lirc
    ppc,           \* position of the translation run
    lircIn,        \* argument of Helper.lirc2broadlink
    lircOut,       \* outcome of Helper.lirc2broadlink
    lircPc,        \* position of the packet run
    delay,         \* IRsinnRemote._delay, also the controller's _delay
    sendPc,        \* position inside the controller's send
    sendArg,       \* send's argument command
    sendExc,       \* exception raised by send
    sink,          \* the calls handed to the transport, in order
    sends,         \* the send calls that have ended, in order
    cmdPc,         \* position inside IRsinnRemote.async_send_command
    cmdArg,        \* async_send_command's argument command
    cmdQueue,      \* names the for loop has not reached yet
    cmdExc,        \* exception that left async_send_command
    is_on,         \* IRsinnRemote._is_on
    pwrPc,         \* position inside async_turn_on / async_turn_off
    pwrOp,         \* which of the two is running
    pwrLog,        \* the async_turn_on / async_turn_off calls that ended
    hassData,      \* hass.data[DOMAIN] without the "entities" dict's content
    entities,      \* the dict hass.data[DOMAIN]["entities"]
    regPc,         \* how far the component's setup has come
    svcLog,        \* the service calls handled, in order
    sess,          \* the locals and the history of two concurrent learn calls
    device,        \* the device: attribute 0 and whether it is learning
    captured       \* the codes the device has captured, in order

learnVars == <<log, now, pc, timeout, initial_code, end, code, outcome, ret, exc>>
entVars == <<entPc, entCmd, entExc, commands>>
ctorVars == <<controller, ctorArgs, ctorExc>>
prontoVars == <<pronto, presult, ppc>>
lircVars == <<lircIn, lircOut, lircPc>>
sendVars == <<delay, sendPc, sendArg, sendExc, sink, sends, cmdPc, cmdArg,
              cmdQueue, cmdExc>>
learnLocals == <<log, pc, timeout, initial_code, end, code, outcome, ret, exc>>
powerVars == <<is_on, pwrPc, pwrOp, pwrLog>>
regVars == <<hassData, entities, regPc, svcLog>>
conVars == <<sess, device, captured>>
restVars == <<powerVars, regVars, conVars>>
vars == <<controller, ctorArgs, ctorExc, log, now, pc, timeout, initial_code,
          end, code, outcome, ret, exc, entPc, entCmd, entExc, commands,
          pronto, presult, ppc, lircIn, lircOut, lircPc, delay, sendPc,
          sendArg, sendExc, sink, sends, cmdPc, cmdArg, cmdQueue, cmdExc,
          is_on, pwrPc, pwrOp, pwrLog, hassData, entities, regPc, svcLog,
          sess, device, captured>>

NoPronto == <<>>
NoResult == [status |-> "none", pulses |-> <<>>]

InitCtl ==
    /\ controller = None
    /\ ctorArgs = None
    /\ ctorExc = NoExc
    /\ log = <<>>
    /\ now = 0
    /\ pc = "Idle"
    /\ timeout = 0
    /\ initial_code = None
    /\ end = 0
    /\ code = None
    /\ outcome = "none"
    /\ ret = None
    /\ exc = NoExc
    /\ entPc = "idle"
    /\ entCmd = None
    /\ entExc = NoExc
    /\ commands = InitCommands

NoPacket == [status |-> "none", packet |-> <<>>]

ProntoOff ==
    /\ pronto = NoPronto
    /\ presult = NoResult
    /\ ppc = "off"

LircOff ==
    /\ lircIn = <<>>
    /\ lircOut = NoPacket
    /\ lircPc = "off"

SendOff ==
    /\ delay = 0
    /\ sendPc = "off"
    /\ sendArg = None
    /\ sendExc = NoExc
    /\ sink = <<>>
    /\ sends = <<>>
    /\ cmdPc = "off"
    /\ cmdArg = None
    /\ cmdQueue = <<>>
    /\ cmdExc = NoExc

PowerOff ==
    /\ is_on = FALSE
    /\ pwrPc = "off"
    /\ pwrOp = "none"
    /\ pwrLog = <<>>

RegOff ==
    /\ hassData = <<>>
    /\ entities = <<>>
    /\ regPc = "off"
    /\ svcLog = <<>>

ConOff ==
    /\ sess = <<>>
    /\ device = [attr |-> None, learning |-> FALSE]
    /\ captured = <<>>

RestOff == PowerOff /\ RegOff /\ ConOff

Init ==
    /\ InitCtl
    /\ ProntoOff
    /\ LircOff
    /\ SendOff
    /\ RestOff

\* One hass.services.async_call record: op is "read" (attribute read),
\* "begin" (learn mode on) or "end" (learn mode off); t the time of issue;
\* ok whether the call returned; val what _read_code made of the response.
Call(op, t, ok, val) == [op |-> op, t |-> t, ok |-> ok, val |-> val]

\* IRsinnRemote.__init__: self._controller = get_controller(...).
NewController(kind, encoding) ==
    /\ ctorArgs = None
    /\ LET r == get_controller(kind, encoding) IN
        /\ controller' = r.obj
        /\ ctorExc' = r.exc
    /\ ctorArgs' = Some([kind |-> kind, encoding |-> encoding])
    /\ UNCHANGED <<learnVars, entVars, prontoVars, lircVars, sendVars, restVars>>

\* ------------------------------------------- IRsinnRemote.async_learn_command
\* The entity calls self._controller.learn() and so runs with the default
\* timeout of 30; the model lets the caller pass any timeout in 0..MaxTimeout.
Timeouts == 0 .. MaxTimeout

\* The longest call log a learn session can produce (baseline read, begin,
\* one read per poll, end); reads are not modelled beyond it.
MaxLog == MaxTimeout + 3

\* Entry of async_learn_command up to the call of self._controller.learn().
LearnCommandCall(command, key, tmo) ==
    /\ controller # None
    /\ entPc = "idle"
    /\ entCmd' = Or(command, key)
    /\ IF ~Truthy(entCmd')
       THEN /\ entPc' = "done"
            /\ UNCHANGED <<pc, timeout, exc>>
       ELSE /\ entPc' = "learning"
            /\ IF controller[1].cls = "ZHAController"
               THEN /\ pc' = "ReadBaseline"
                    /\ timeout' = tmo
                    /\ exc' = exc
               ELSE \* AbstractController.learn
                    /\ pc' = "Raised"
                    /\ exc' = "NotImplementedError"
                    /\ timeout' = timeout
    /\ UNCHANGED <<ctorVars, log, now, initial_code, end, code, outcome, ret,
                   entExc, commands, prontoVars, lircVars, sendVars, restVars>>

\* ------------------------------------------------------ ZHAController.learn
\* Variant: the baseline read is not wrapped in try, a failed read raises.
ReadBaseline_Fatal(resp) ==
    /\ pc = "ReadBaseline"
    /\ log' = Append(log, Call("read", now, resp.shape # "error", read_code(resp)))
    /\ IF resp.shape = "error"
       THEN /\ pc' = "Raised"
            /\ exc' = "TransportError"
            /\ initial_code' = initial_code
       ELSE /\ pc' = "EnterLearnMode"
            /\ exc' = exc
            /\ initial_code' = read_code(resp)
    /\ UNCHANGED <<ctorVars, entVars, prontoVars, lircVars, sendVars, restVars, now, timeout, end, code,
                   outcome, ret>>

\* initial_code = await _read_code(). The clock is first read after the
\* begin-learn call (end = time.monotonic() + timeout), so the time the
\* calls before it take is not modelled.
ReadBaseline(resp) ==
    /\ pc = "ReadBaseline"
    /\ initial_code' = read_code(resp)
    /\ log' = Append(log, Call("read", now, resp.shape # "error", read_code(resp)))
    /\ pc' = "EnterLearnMode"
    /\ UNCHANGED <<ctorVars, entVars, prontoVars, lircVars, sendVars, restVars, now, timeout, end, code,
                   outcome, ret, exc>>

\* Variant: a failed begin-learn call is swallowed and polling starts.
EnterLearnMode_Swallow(ok) ==
    /\ pc = "EnterLearnMode"
    /\ log' = Append(log, Call("begin", now, ok, None))
    /\ end' = now + timeout
    /\ pc' = "While"
    /\ UNCHANGED <<ctorVars, entVars, prontoVars, lircVars, sendVars, restVars, now, timeout, initial_code,
                   code, outcome, ret, exc>>

\* await async_call(..., learn_data), not wrapped in try; then
\* end = time.monotonic() + timeout.
EnterLearnMode(ok) ==
    /\ pc = "EnterLearnMode"
    /\ log' = Append(log, Call("begin", now, ok, None))
    /\ IF ok
       THEN /\ end' = now + timeout
            /\ pc' = "While"
            /\ exc' = exc
       ELSE /\ pc' = "Raised"
            /\ exc' = "TransportError"
            /\ end' = end
    /\ UNCHANGED <<ctorVars, entVars, prontoVars, lircVars, sendVars, restVars, now, timeout, initial_code,
                   code, outcome, ret>>

\* while time.monotonic() < end
While ==
    /\ pc = "While"
    /\ IF LoopCond(now, end)
       THEN /\ pc' = "Sleep"
            /\ outcome' = outcome
       ELSE /\ pc' = "TimedOut"
            /\ outcome' = "TimedOut"
    /\ UNCHANGED <<ctorVars, entVars, prontoVars, lircVars, sendVars, restVars, log, now, timeout,
                   initial_code, end, code, ret, exc>>

\* await asyncio.sleep(1)
Sleep ==
    /\ pc = "Sleep"
    /\ now' = SleepUntil(now)
    /\ pc' = "Read"
    /\ UNCHANGED <<ctorVars, entVars, prontoVars, lircVars, sendVars, restVars, log, timeout, initial_code,
                   end, code, outcome, ret, exc>>

\* code = await _read_code(); if code and code != initial_code
PollRead(resp, d) ==
    /\ pc = "Read"
    /\ Len(log) < MaxLog - 1
    /\ code' = read_code(resp)
    /\ log' = Append(log, Call("read", now, resp.shape # "error", read_code(resp)))
    /\ now' = now + d
    /\ IF IsNewCode(code', initial_code)
       THEN /\ pc' = "CodeCaptured"
            /\ outcome' = "CodeCaptured"
       ELSE /\ pc' = "While"
            /\ outcome' = outcome
    /\ UNCHANGED <<ctorVars, entVars, prontoVars, lircVars, sendVars, restVars, timeout, initial_code, end,
                   ret, exc>>

\* Variant: the exit-learn-mode call is not wrapped in try.
AfterExit_Propagate(ok, value) ==
    IF ok
    THEN [pc |-> "Returned", ret |-> value, exc |-> NoExc]
    ELSE [pc |-> "Raised", ret |-> None, exc |-> "TransportError"]

\* What learn does when its exit-learn-mode call raises: both calls are
\* inside try/except Exception, so it goes on to the return statement.
AfterExit(ok, value) == [pc |-> "Returned", ret |-> value, exc |-> NoExc]

\* The exit call inside the loop, then `return code`.
ExitCaptured(ok) ==
    /\ pc = "CodeCaptured"
    /\ log' = Append(log, Call("end", now, ok, None))
    /\ LET r == AfterExit(ok, code) IN
        /\ pc' = r.pc
        /\ ret' = r.ret
        /\ exc' = r.exc
    /\ UNCHANGED <<ctorVars, entVars, prontoVars, lircVars, sendVars, restVars, now, timeout, initial_code,
                   end, code, outcome>>

\* Variant: no exit-learn-mode call on the timeout path.
ExitTimedOut_NoCleanup(ok) ==
    /\ pc = "TimedOut"
    /\ pc' = "Returned"
    /\ ret' = None
    /\ UNCHANGED <<ctorVars, entVars, prontoVars, lircVars, sendVars, restVars, log, now, timeout,
                   initial_code, end, code, outcome, exc>>

\* The exit call after the loop, then `return None`.
ExitTimedOut(ok) ==
    /\ pc = "TimedOut"
    /\ log' = Append(log, Call("end", now, ok, None))
    /\ LET r == AfterExit(ok, None) IN
        /\ pc' = r.pc
        /\ ret' = r.ret
        /\ exc' = r.exc
    /\ UNCHANGED <<ctorVars, entVars, prontoVars, lircVars, sendVars, restVars, now, timeout, initial_code,
                   end, code, outcome>>

\* Variant: only `except NotImplementedError`.
Catches_OnlyNotImplemented(e) == e = "NotImplementedError"

\* The except clauses around learn(): `except NotImplementedError` and
\* `except Exception`; every exception learn raises here is an Exception.
Catches(e) == e = "NotImplementedError" \/ e \in {"TransportError"}

\* Variant: the result is stored without the `if learned` test.
LearnCommandReturn_StoreAlways ==
    /\ entPc = "learning"
    /\ pc \in {"Returned", "Raised"}
    /\ entPc' = "done"
    /\ entExc' = IF pc = "Raised" /\ ~Catches(exc) THEN exc ELSE NoExc
    /\ IF pc = "Returned"
       THEN commands' = (entCmd[1] :> List(ret)) @@ commands
       ELSE commands' = commands
    /\ UNCHANGED <<ctorVars, learnVars, entCmd, prontoVars, lircVars, sendVars, restVars>>

\* async_learn_command after learn() returned or raised: both except
\* clauses return; a truthy result is stored as a one-element list.
LearnCommandReturn ==
    /\ entPc = "learning"
    /\ pc \in {"Returned", "Raised"}
    /\ entPc' = "done"
    /\ entExc' = IF pc = "Raised" /\ ~Catches(exc) THEN exc ELSE NoExc
    /\ IF pc = "Returned" /\ Truthy(ret)
       THEN commands' = (entCmd[1] :> List(<<ret[1]>>)) @@ commands
       ELSE commands' = commands
    /\ UNCHANGED <<ctorVars, learnVars, entCmd, prontoVars, lircVars, sendVars, restVars>>

Next ==
    \/ \E kind \in KindInputs, encoding \in EncodingInputs :
          NewController(kind, encoding)
    \/ \E command \in NameInputs, key \in NameInputs, tmo \in Timeouts :
          LearnCommandCall(command, key, tmo)
    \/ \E resp \in Responses : ReadBaseline(resp)
    \/ \E ok \in BOOLEAN : EnterLearnMode(ok)
    \/ While
    \/ Sleep
    \/ \E resp \in Responses, d \in 0 .. MaxIoDelay : PollRead(resp, d)
    \/ \E ok \in BOOLEAN : ExitCaptured(ok)
    \/ \E ok \in BOOLEAN : ExitTimedOut(ok)
    \/ LearnCommandReturn

Spec == Init /\ [][Next]_vars

\* A learn call that is under way keeps running: the event loop resumes the
\* coroutine after every await, and every call either returns or raises.
FairSpec == Spec /\ WF_vars(Next)

\* ------------------------------------------------------- translation runs
InitPronto ==
    /\ InitCtl
    /\ LircOff
    /\ pronto \in ProntoInputs
    /\ presult = NoResult
    /\ ppc = "call"
    /\ SendOff
    /\ RestOff

\* One call of Helper.pronto2lirc on the input.
CallPronto2lirc ==
    /\ ppc = "call"
    /\ presult' = pronto2lirc(pronto)
    /\ ppc' = "done"
    /\ UNCHANGED <<ctorVars, learnVars, entVars, pronto, lircVars, sendVars, restVars>>

NextPronto == CallPronto2lirc

SpecPronto == InitPronto /\ [][NextPronto]_vars

\* ------------------------------------------------------------ packet runs
InitLirc ==
    /\ InitCtl
    /\ ProntoOff
    /\ lircIn \in PulseInputs
    /\ lircOut = NoPacket
    /\ lircPc = "call"
    /\ SendOff
    /\ RestOff

\* One call of Helper.lirc2broadlink on the input.
CallLirc2broadlink ==
    /\ lircPc = "call"
    /\ lircOut' = lirc2broadlink(lircIn)
    /\ lircPc' = "done"
    /\ UNCHANGED <<ctorVars, learnVars, entVars, prontoVars, lircIn, sendVars, restVars>>

NextLirc == CallLirc2broadlink

SpecLirc == InitLirc /\ [][NextLirc]_vars

\* -------------------------------------------------------------- send runs
\* The entity before __init__ has built its controller: delay and the
\* command table come from the configuration.
InitSend ==
    /\ controller = None
    /\ ctorArgs = None
    /\ ctorExc = NoExc
    /\ log = <<>>
    /\ now = 0
    /\ pc = "Idle"
    /\ timeout = 0
    /\ initial_code = None
    /\ end = 0
    /\ code = None
    /\ outcome = "none"
    /\ ret = None
    /\ exc = NoExc
    /\ entPc = "idle"
    /\ entCmd = None
    /\ entExc = NoExc
    /\ commands = SendCommands
    /\ ProntoOff
    /\ LircOff
    /\ delay \in 0 .. MaxDelay
    /\ sendPc = "idle"
    /\ sendArg = None
    /\ sendExc = NoExc
    /\ sink = <<>>
    /\ sends = <<>>
    /\ cmdPc = "idle"
    /\ cmdArg = None
    /\ cmdQueue = <<>>
    /\ cmdExc = NoExc
    /\ RestOff

\* One call handed to the transport by send number call: issued at t, over
\* at tr, with what the transport did.
Dispatch(call, req, res, t, tr) ==
    [call |-> call, req |-> req, res |-> res, t |-> t, tr |-> tr]

\* Variant: a call that raised is issued once more.
Dispatches_Retry(call, req, res, t, tr) ==
    IF res \in TransportErrors
    THEN <<Dispatch(call, req, res, t, tr), Dispatch(call, req, res, t, tr)>>
    ELSE <<Dispatch(call, req, res, t, tr)>>

\* The calls one send hands to the transport once its request is built:
\* the one awaited call.
Dispatches(call, req, res, t, tr) == <<Dispatch(call, req, res, t, tr)>>

\* One ended send call: its argument, when it started and ended, and the
\* exception it raised.
Sent(arg, t, tr, e) == [arg |-> arg, t |-> t, tr |-> tr, exc |-> e]

\* A caller other than async_send_command calls controller.send(command).
SendCall(command) ==
    /\ controller # None
    /\ sendPc = "idle"
    /\ cmdPc = "idle"
    /\ sends = <<>>
    /\ sendArg' = Some(command)
    /\ sendPc' = "call"
    /\ UNCHANGED <<ctorVars, learnVars, entVars, prontoVars, lircVars, restVars, delay,
                   sendExc, sink, sends, cmdPc, cmdArg, cmdQueue, cmdExc>>

\* The controller's send: the request is built and, unless building it
\* raised, awaited once; the transport answers res after d units of time.
ControllerSend(res, d) ==
    /\ sendPc = "call"
    /\ res \in Outcomes(controller[1])
    /\ LET r == Request(controller[1], delay, sendArg[1]) IN
       IF r.exc # NoExc
       THEN /\ sendExc' = r.exc
            /\ sends' = Append(sends, Sent(sendArg[1], now, now, r.exc))
            /\ UNCHANGED <<sink, now>>
       ELSE /\ sink' = sink \o Dispatches(Len(sends) + 1, r.req, res,
                                          now, now + d)
            /\ now' = now + d
            /\ sendExc' = IF res \in TransportErrors THEN res ELSE NoExc
            /\ sends' = Append(sends, Sent(sendArg[1], now, now + d,
                                           sendExc'))
    /\ sendPc' = "returned"
    /\ UNCHANGED <<ctorVars, learnLocals, entVars, prontoVars, lircVars, restVars,
                   delay, sendArg, cmdPc, cmdArg, cmdQueue, cmdExc>>

\* Variant: the loop goes on to the next name without waiting.
SleepFor_None(secs) == 0

\* asyncio.sleep(self._delay): the time that passes.
SleepFor(secs) == secs

\* Entry of async_send_command: a str becomes a one-element list.
SendCommandCall(command) ==
    /\ controller # None
    /\ cmdPc = "idle"
    /\ sendPc = "idle"
    /\ cmdArg' = Some(command)
    /\ cmdQueue' = command.toks
    /\ cmdPc' = "loop"
    /\ UNCHANGED <<ctorVars, learnVars, entVars, prontoVars, lircVars, restVars, delay,
                   sendPc, sendArg, sendExc, sink, sends, cmdExc>>

\* The head of the for loop: the end of the list, a name of the table,
\* whose stored command is sent, or a name that is skipped.
SendCommandLoop ==
    /\ cmdPc = "loop"
    /\ IF cmdQueue = <<>>
       THEN /\ cmdPc' = "done"
            /\ UNCHANGED <<cmdQueue, sendPc, sendArg>>
       ELSE IF Head(cmdQueue) \in DOMAIN commands
       THEN /\ sendArg' = Some(commands[Head(cmdQueue)])
            /\ sendPc' = "call"
            /\ cmdPc' = "sending"
            /\ UNCHANGED cmdQueue
       ELSE /\ cmdQueue' = Tail(cmdQueue)
            /\ UNCHANGED <<cmdPc, sendPc, sendArg>>
    /\ UNCHANGED <<ctorVars, learnVars, entVars, prontoVars, lircVars, restVars, delay,
                   sendExc, sink, sends, cmdArg, cmdExc>>

\* After `await self._controller.send(...)`: an exception leaves
\* async_send_command, otherwise asyncio.sleep(self._delay) and the next
\* name.
SendCommandResume ==
    /\ cmdPc = "sending"
    /\ sendPc = "returned"
    /\ sendPc' = "idle"
    /\ IF sendExc # NoExc
       THEN /\ cmdPc' = "failed"
            /\ cmdExc' = sendExc
            /\ UNCHANGED <<now, cmdQueue>>
       ELSE /\ now' = now + SleepFor(delay)
            /\ cmdQueue' = Tail(cmdQueue)
            /\ cmdPc' = "loop"
            /\ UNCHANGED cmdExc
    /\ UNCHANGED <<ctorVars, learnLocals, entVars, prontoVars, lircVars, restVars,
                   delay, sendArg, sendExc, sink, sends, cmdArg>>

NextSend ==
    \/ \E kind \in KindInputs, encoding \in EncodingInputs :
          NewController(kind, encoding)
    \/ \E command \in SendInputs : SendCall(command)
    \/ \E res \in {"ok", "http_error"} \cup TransportErrors,
          d \in 0 .. MaxIoDelay : ControllerSend(res, d)
    \/ \E command \in NameArgs : SendCommandCall(command)
    \/ SendCommandLoop
    \/ SendCommandResume

SpecSend == InitSend /\ [][NextSend]_vars

\* ------------------------------------------------------------- power runs
\* device_data["commands"] of the entities that are turned on and off: one
\* with a turn_on command only, one with a turn_off command only.
PowerTables ==
    {("turn_on" :> Single(TokFF)), ("turn_off" :> Single(TokFF))}

\* The entity before __init__ has built its controller; _is_on is False.
InitPower ==
    /\ controller = None
    /\ ctorArgs = None
    /\ ctorExc = NoExc
    /\ log = <<>>
    /\ now = 0
    /\ pc = "Idle"
    /\ timeout = 0
    /\ initial_code = None
    /\ end = 0
    /\ code = None
    /\ outcome = "none"
    /\ ret = None
    /\ exc = NoExc
    /\ entPc = "idle"
    /\ entCmd = None
    /\ entExc = NoExc
    /\ commands \in PowerTables
    /\ ProntoOff
    /\ LircOff
    /\ delay = 0
    /\ sendPc = "idle"
    /\ sendArg = None
    /\ sendExc = NoExc
    /\ sink = <<>>
    /\ sends = <<>>
    /\ cmdPc = "off"
    /\ cmdArg = None
    /\ cmdQueue = <<>>
    /\ cmdExc = NoExc
    /\ is_on = FALSE
    /\ pwrPc = "idle"
    /\ pwrOp = "none"
    /\ pwrLog = <<>>
    /\ RegOff
    /\ ConOff

\* The value async_turn_on / async_turn_off assigns to _is_on.
PowerState(op) == op = "turn_on"

\* One ended async_turn_on / async_turn_off call: _is_on before and after
\* it, and the exception that left it.
Turned(op, before, after, e) ==
    [op |-> op, before |-> before, after |-> after, exc |-> e]

\* async_turn_on (op "turn_on") or async_turn_off (op "turn_off") up to the
\* send of the stored command; without a stored command the whole call.
TurnCall(op) ==
    /\ controller # None
    /\ pwrPc = "idle"
    /\ sendPc = "idle"
    /\ Len(pwrLog) < MaxPowerCalls
    /\ pwrOp' = op
    /\ IF op \in DOMAIN commands
       THEN /\ sendArg' = Some(commands[op])
            /\ sendPc' = "call"
            /\ pwrPc' = "sending"
            /\ UNCHANGED <<is_on, pwrLog>>
       ELSE /\ is_on' = PowerState(op)
            /\ pwrLog' = Append(pwrLog, Turned(op, is_on, is_on', NoExc))
            /\ UNCHANGED <<sendArg, sendPc, pwrPc>>
    /\ UNCHANGED <<ctorVars, learnVars, entVars, prontoVars, lircVars, delay,
                   sendExc, sink, sends, cmdPc, cmdArg, cmdQueue, cmdExc,
                   regVars, conVars>>

\* Variant: _is_on is assigned although send raised.
TurnResume_Always ==
    /\ pwrPc = "sending"
    /\ sendPc = "returned"
    /\ sendPc' = "idle"
    /\ pwrPc' = "idle"
    /\ is_on' = PowerState(pwrOp)
    /\ pwrLog' = Append(pwrLog, Turned(pwrOp, is_on, is_on', sendExc))
    /\ UNCHANGED <<ctorVars, learnVars, entVars, prontoVars, lircVars, delay,
                   sendArg, sendExc, sink, sends, cmdPc, cmdArg, cmdQueue,
                   cmdExc, pwrOp, regVars, conVars>>

\* After `await self._controller.send(command)`: an exception leaves the
\* call, otherwise _is_on is assigned.
TurnResume ==
    /\ pwrPc = "sending"
    /\ sendPc = "returned"
    /\ sendPc' = "idle"
    /\ pwrPc' = "idle"
    /\ is_on' = IF sendExc # NoExc THEN is_on ELSE PowerState(pwrOp)
    /\ pwrLog' = Append(pwrLog, Turned(pwrOp, is_on, is_on', sendExc))
    /\ UNCHANGED <<ctorVars, learnVars, entVars, prontoVars, lircVars, delay,
                   sendArg, sendExc, sink, sends, cmdPc, cmdArg, cmdQueue,
                   cmdExc, pwrOp, regVars, conVars>>

NextPower ==
    \/ \E kind \in KindInputs, encoding \in EncodingInputs :
          NewController(kind, encoding)
    \/ \E op \in {"turn_on", "turn_off"} : TurnCall(op)
    \/ \E res \in {"ok", "http_error"} \cup TransportErrors,
          d \in 0 .. MaxIoDelay : ControllerSend(res, d)
    \/ TurnResume

SpecPower == InitPower /\ [][NextPower]_vars

\* ---------------------------------------------------- learn-then-send runs
\* An entity on which a command is learned and a command is then sent: the
\* send is called once async_learn_command has returned.
InitRoundTrip ==
    /\ controller = None
    /\ ctorArgs = None
    /\ ctorExc = NoExc
    /\ log = <<>>
    /\ now = 0
    /\ pc = "Idle"
    /\ timeout = 0
    /\ initial_code = None
    /\ end = 0
    /\ code = None
    /\ outcome = "none"
    /\ ret = None
    /\ exc = NoExc
    /\ entPc = "idle"
    /\ entCmd = None
    /\ entExc = NoExc
    /\ commands = SendCommands
    /\ ProntoOff
    /\ LircOff
    /\ delay \in 0 .. MaxDelay
    /\ sendPc = "idle"
    /\ sendArg = None
    /\ sendExc = NoExc
    /\ sink = <<>>
    /\ sends = <<>>
    /\ cmdPc = "idle"
    /\ cmdArg = None
    /\ cmdQueue = <<>>
    /\ cmdExc = NoExc
    /\ RestOff

\* The names a command is learned for: one of the table and a new one; the
\* session runs with a timeout of one or two poll intervals.
LearnNames == {Some("turn_on"), Some("volume_down")}
LearnTimeouts == {1, 2}

\* async_send_command(name) called after async_learn_command returned.
SendAfterLearn(name) ==
    /\ entPc = "done"
    /\ SendCommandCall(Single(name))

NextRoundTrip ==
    \/ \E kind \in KindInputs, encoding \in EncodingInputs :
          NewController(kind, encoding)
    \/ \E command \in LearnNames, tmo \in LearnTimeouts :
          LearnCommandCall(command, None, tmo)
    \/ \E resp \in Responses : ReadBaseline(resp)
    \/ \E ok \in BOOLEAN : EnterLearnMode(ok)
    \/ While
    \/ Sleep
    \/ \E resp \in Responses, d \in 0 .. MaxIoDelay : PollRead(resp, d)
    \/ \E ok \in BOOLEAN : ExitCaptured(ok)
    \/ \E ok \in BOOLEAN : ExitTimedOut(ok)
    \/ LearnCommandReturn
    \/ \E n \in Names \cup {"volume_down"} : SendAfterLearn(n)
    \/ SendCommandLoop
    \/ \E res \in {"ok", "http_error"} \cup TransportErrors,
          d \in 0 .. MaxIoDelay : ControllerSend(res, d)
    \/ SendCommandResume

SpecRoundTrip == InitRoundTrip /\ [][NextRoundTrip]_vars

\* ------------------------------------------------------ service registry
\* The entity ids of the entities of the model, and an id no entity has.
EntityIds == {"remote.tv", "remote.fan"}
ServiceIds == EntityIds \cup {"remote.none"}
Services ==
    {"learn_command", "save_command", "delete_command", "test_command"}

\* Before component setup: hass.data has no entry for the domain.
InitRegistry ==
    /\ InitCtl
    /\ ProntoOff
    /\ LircOff
    /\ SendOff
    /\ PowerOff
    /\ hassData = <<>>
    /\ entities = <<>>
    /\ regPc = "new"
    /\ svcLog = <<>>
    /\ ConOff

\* async_setup: hass.data.setdefault(DOMAIN, {}), then the "storage" and
\* "entities" entries are assigned, the latter a new empty dict, and the
\* services are registered.
AsyncSetup ==
    /\ regPc = "new"
    /\ hassData' = ("storage" :> "StorageManager") @@ ("entities" :> "dict")
                      @@ hassData
    /\ entities' = <<>>
    /\ regPc' = "setup"
    /\ UNCHANGED <<ctorVars, learnVars, entVars, prontoVars, lircVars,
                   sendVars, powerVars, conVars, svcLog>>

\* async_setup_entry: setdefault on the domain entry, on "storage" and on
\* "entities"; what is there is kept.
AsyncSetupEntry ==
    /\ regPc = "setup"
    /\ hassData' = hassData @@ ("storage" :> "StorageManager")
                      @@ ("entities" :> "dict")
    /\ entities' = IF "entities" \in DOMAIN hassData THEN entities ELSE <<>>
    /\ regPc' = "entry"
    /\ UNCHANGED <<ctorVars, learnVars, entVars, prontoVars, lircVars,
                   sendVars, powerVars, conVars, svcLog>>

\* IRsinnRemote.async_added_to_hass of the entity with id entity_id:
\* hass.data.setdefault(DOMAIN, {})[self.entity_id] = self.
AddedToHass(entity_id) ==
    /\ entity_id \notin DOMAIN hassData
    /\ hassData' = (entity_id :> entity_id) @@ hassData
    /\ UNCHANGED <<ctorVars, learnVars, entVars, prontoVars, lircVars,
                   sendVars, powerVars, conVars, entities, regPc,
                   svcLog>>

\* One handled service call: whether the entity had registered itself
\* when the call came, and whether the handler's lookup
\* hass.data[DOMAIN]["entities"].get(entity_id) found it.
Handled(service, entity_id, registered, found) ==
    [service |-> service, entity_id |-> entity_id,
     registered |-> registered, found |-> found]

\* _learn_command, _save_command, _delete_command or _test_command called
\* with entity_id: the lookup, and `if entity:`. No code of the component
\* puts an entry into the "entities" dict, so the lookup returns None and
\* the statements under `if entity:` are not reached.
CallService(service, entity_id) ==
    /\ regPc \in {"setup", "entry"}
    /\ Len(svcLog) < MaxServiceCalls
    /\ svcLog' = Append(svcLog,
                        Handled(service, entity_id,
                                entity_id \in DOMAIN hassData,
                                entity_id \in DOMAIN entities))
    /\ UNCHANGED <<ctorVars, learnVars, entVars, prontoVars, lircVars,
                   sendVars, powerVars, conVars, hassData, entities,
                   regPc>>

NextRegistry ==
    \/ AsyncSetup
    \/ AsyncSetupEntry
    \/ \E entity_id \in EntityIds : AddedToHass(entity_id)
    \/ \E service \in Services, entity_id \in ServiceIds :
          CallService(service, entity_id)

SpecRegistry == InitRegistry /\ [][NextRegistry]_vars

\* ------------------------------------------------------------------------
\* Two concurrent ZHAController.learn calls against one device. Each call
\* is a coroutine with its own locals (initial_code, end, code); the calls
\* share the device and the clock. A coroutine gives up control only at
\* its awaits: the three service calls and asyncio.sleep(1). The service
\* calls take no time in this model; time passes while every started call
\* sleeps.
Sessions == {1, 2}
ConTimeouts == 1 .. MaxConTimeout
CapturedCodes == {"A", "B"}
DeviceInit == {None, Some("A")}

NewSession ==
    [pc |-> "Idle", timeout |-> 0, initial_code |-> None, end |-> 0,
     code |-> None, ret |-> None, exc |-> NoExc, wake |-> 0, gen |-> 0,
     base |-> None, begin |-> "none", beginAt |-> 0, ends |-> 0, seen |-> {}]

InitConcurrent ==
    /\ InitCtl
    /\ ProntoOff
    /\ LircOff
    /\ SendOff
    /\ PowerOff
    /\ RegOff
    /\ sess = [s \in Sessions |-> NewSession]
    /\ device \in [attr : DeviceInit, learning : {FALSE}]
    /\ captured = <<>>

\* The answer of the device to get_zigbee_cluster_attribute: the value of
\* attribute 0, or an error.
DeviceRead(ok) ==
    IF ok THEN [shape |-> "value", v |-> device.attr]
    ELSE [shape |-> "error", v |-> None]

ConFrame ==
    UNCHANGED <<ctorVars, learnLocals, entVars, prontoVars, lircVars, sendVars,
                powerVars, regVars>>

\* learn(timeout) is called on the controller. The two calls are alike, so
\* call 1 is the one that starts first.
ConLearn(s, tmo) ==
    /\ sess[s].pc = "Idle"
    /\ s = 2 => sess[1].pc # "Idle"
    /\ sess' = [sess EXCEPT ![s].pc = "ReadBaseline", ![s].timeout = tmo]
    /\ UNCHANGED <<now, device, captured>>
    /\ ConFrame

\* Variant: the baseline is one value shared by the running calls.
SetBaseline_Shared(ss, s, v) ==
    [k \in DOMAIN ss |-> [ss[k] EXCEPT !.initial_code = v]]

\* initial_code is a local variable of the call.
SetBaseline(ss, s, v) == [ss EXCEPT ![s].initial_code = v]

\* initial_code = await _read_code()
ConReadBaseline(s, ok) ==
    /\ sess[s].pc = "ReadBaseline"
    /\ LET v == read_code(DeviceRead(ok))
           ss == SetBaseline(sess, s, v) IN
       sess' = [ss EXCEPT ![s].pc = "EnterLearnMode",
                          ![s].base = v]
    /\ UNCHANGED <<now, device, captured>>
    /\ ConFrame

\* await async_call(..., learn_data); end = time.monotonic() + timeout.
\* A call that returned has put the device into learn mode.
ConEnterLearnMode(s, ok) ==
    /\ sess[s].pc = "EnterLearnMode"
    /\ IF ok
       THEN /\ sess' = [sess EXCEPT
                  ![s].pc = "While",
                  ![s].end = now + sess[s].timeout,
                  ![s].begin = "returned",
                  ![s].beginAt = now]
            /\ device' = [device EXCEPT !.learning = TRUE]
       ELSE /\ sess' = [sess EXCEPT
                  ![s].pc = "Raised",
                  ![s].exc = "TransportError",
                  ![s].begin = "raised"]
            /\ device' = device
    /\ UNCHANGED <<now, captured>>
    /\ ConFrame

\* while time.monotonic() < end: await asyncio.sleep(1)
ConWhile(s) ==
    /\ sess[s].pc = "While"
    /\ IF LoopCond(now, sess[s].end)
       THEN sess' = [sess EXCEPT ![s].pc = "Sleeping",
                                 ![s].wake = SleepUntil(now)]
       ELSE sess' = [sess EXCEPT ![s].pc = "TimedOut"]
    /\ UNCHANGED <<now, device, captured>>
    /\ ConFrame

Runnable(s) ==
    \/ sess[s].pc \in {"ReadBaseline", "EnterLearnMode", "While",
                       "CodeCaptured", "TimedOut"}
    \/ sess[s].pc = "Sleeping" /\ sess[s].wake <= now

\* The event loop has nothing to run: the clock moves on to the next wake
\* time.
Tick ==
    /\ \A s \in Sessions : ~Runnable(s)
    /\ \E s \in Sessions : sess[s].pc = "Sleeping"
    /\ now' = now + 1
    /\ UNCHANGED <<sess, device, captured>>
    /\ ConFrame

\* code = await _read_code(); if code and code != initial_code
ConPollRead(s, ok) ==
    /\ sess[s].pc = "Sleeping"
    /\ sess[s].wake <= now
    /\ LET v == read_code(DeviceRead(ok)) IN
       sess' = [sess EXCEPT
           ![s].code = v,
           ![s].gen = IF ok THEN Len(captured) ELSE 0,
           ![s].seen = @ \cup {v},
           ![s].pc = IF IsNewCode(v, sess[s].initial_code)
                     THEN "CodeCaptured" ELSE "While"]
    /\ UNCHANGED <<now, device, captured>>
    /\ ConFrame

\* The exit-learn-mode call of either branch, then the return statement. A
\* call that returned has taken the device out of learn mode.
ConExit(s, ok) ==
    /\ sess[s].pc \in {"CodeCaptured", "TimedOut"}
    /\ LET value == IF sess[s].pc = "CodeCaptured" THEN sess[s].code ELSE None
           r == AfterExit(ok, value) IN
       sess' = [sess EXCEPT
           ![s].pc = r.pc,
           ![s].ret = r.ret,
           ![s].exc = r.exc,
           ![s].ends = @ + 1]
    /\ device' = [device EXCEPT !.learning = IF ok THEN FALSE ELSE @]
    /\ UNCHANGED <<now, captured>>
    /\ ConFrame

\* The device in learn mode receives an infrared code and stores it in
\* attribute 0.
DeviceCapture(c) ==
    /\ device.learning
    /\ Len(captured) < MaxCaptures
    /\ device' = [device EXCEPT !.attr = Some(c)]
    /\ captured' = Append(captured, c)
    /\ UNCHANGED <<now, sess>>
    /\ ConFrame

NextConcurrent ==
    \/ \E s \in Sessions, tmo \in ConTimeouts : ConLearn(s, tmo)
    \/ \E s \in Sessions, ok \in BOOLEAN : ConReadBaseline(s, ok)
    \/ \E s \in Sessions, ok \in BOOLEAN : ConEnterLearnMode(s, ok)
    \/ \E s \in Sessions : ConWhile(s)
    \/ Tick
    \/ \E s \in Sessions, ok \in BOOLEAN : ConPollRead(s, ok)
    \/ \E s \in Sessions, ok \in BOOLEAN : ConExit(s, ok)
    \/ \E c \in CapturedCodes : DeviceCapture(c)

SpecConcurrent == InitConcurrent /\ [][NextConcurrent]_vars

\* The event loop runs a ready coroutine and the clock does not stop.
FairSpecConcurrent == SpecConcurrent /\ WF_vars(NextConcurrent)

\* ------------------------------------------------------------------------
\* Vocabulary of the learn-session properties, read off the call log.
Polls == {i \in 2 .. Len(log) : log[i].op = "read"}
Baseline == log[1].val
BaselineFailed == Len(log) >= 1 /\ ~log[1].ok
BeginOk == \E i \in 1 .. Len(log) : log[i].op = "begin" /\ log[i].ok
BeginFailed == \E i \in 1 .. Len(log) : log[i].op = "begin" /\ ~log[i].ok
EndCalls == {i \in 1 .. Len(log) : log[i].op = "end"}
EndFailed == \E i \in EndCalls : ~log[i].ok
Ended == pc \in {"Returned", "Raised"}
Present(v) == v # None
Min(S) == CHOOSE x \in S : \A y \in S : x <= y
Max(S) == CHOOSE x \in S : \A y \in S : x >= y

\* C1 (as stated): when begin-learn succeeded and some poll issued before the
\* deadline returned a present (not None) value different from the baseline,
\* learn returns the first such value as CodeCaptured with exactly one
\* end-learn call; a poll returning the baseline or no value never ends the
\* session.
C1_Original ==
    (pc = "Returned" /\ BeginOk) =>
        LET H == {i \in Polls : /\ log[i].t < end
                                /\ Present(log[i].val)
                                /\ log[i].val # Baseline}
        IN /\ H # {} => /\ ret = log[Min(H)].val
                        /\ outcome = "CodeCaptured"
                        /\ Cardinality(EndCalls) = 1
           /\ outcome = "CodeCaptured" =>
                 log[Max(Polls)].val \notin {None, Baseline}

\* C1 (amended): the same for the first poll before the deadline that
\* returned a non-empty value different from the baseline; a poll returning
\* the baseline, the empty string or no value never ends the session.
C1_FirstNewCode ==
    (pc = "Returned" /\ BeginOk) =>
        LET H == {i \in Polls : /\ log[i].t < end
                                /\ Truthy(log[i].val)
                                /\ log[i].val # Baseline}
        IN /\ H # {} => /\ ret = log[Min(H)].val
                        /\ outcome = "CodeCaptured"
                        /\ Cardinality(EndCalls) = 1
           /\ outcome = "CodeCaptured" =>
                 log[Max(Polls)].val \notin {None, Some(""), Baseline}

\* Baseline "A", a poll returning "A", then a poll before the deadline
\* returning "B": learn returned "B".
C1_Witness ==
    /\ pc = "Returned"
    /\ Len(log) = 5
    /\ log[1].val = Some("A")
    /\ log[2].ok
    /\ log[3].val = Some("A")
    /\ log[4].val = Some("B")
    /\ log[4].t < end
    /\ ret = Some("B")

C3_Original ==
    (Ended /\ BeginFailed) => (pc = "Returned" /\ ret = None /\ exc = NoExc)

\* C3 (amended): when the begin-learn call fails, ZHAController.learn raises
\* the transport error; its caller IRsinnRemote.async_learn_command catches
\* it and returns without raising and without storing a code.
C3_RaisedThenCaught ==
    BeginFailed =>
        /\ pc = "Raised"
        /\ exc = "TransportError"
        /\ ret = None
        /\ entPc = "done" => (entExc = NoExc /\ commands = InitCommands)

\* async_learn_command finished after a failed begin-learn call.
C3_Witness == BeginFailed /\ entPc = "done" /\ pc = "Raised"

\* C4: a failed begin-learn call is the last call of the session: no
\* attribute read and no end-learn call follows it and the poll loop is
\* never entered.
C4_AbortNoPolling ==
    \A i \in 1 .. Len(log) :
        (log[i].op = "begin" /\ ~log[i].ok) =>
            /\ i = Len(log)
            /\ pc = "Raised"
            /\ outcome = "none"
            /\ EndCalls = {}

\* The session is over after the baseline read and the failed begin call.
C4_Witness ==
    /\ Len(log) = 2
    /\ log[1].op = "read"
    /\ log[2].op = "begin"
    /\ ~log[2].ok
    /\ entPc = "done"

\* C5: a failed end-learn call is swallowed on both exit paths: learn still
\* returns the captured code (CodeCaptured) or None (TimedOut) and nothing
\* is raised.
C5_ExitFailureSwallowed ==
    EndFailed =>
        /\ pc = "Returned"
        /\ exc = NoExc
        /\ entExc = NoExc
        /\ outcome \in {"CodeCaptured", "TimedOut"}
        /\ outcome = "CodeCaptured" =>
              (ret = log[Max(Polls)].val /\ Truthy(ret))
        /\ outcome = "TimedOut" => ret = None

\* The end-learn call failed after a code was captured, and learn returned
\* the code.
C5_Witness ==
    /\ EndFailed
    /\ outcome = "CodeCaptured"
    /\ pc = "Returned"
    /\ ret = Some("B")

\* C6 (as stated): a failed baseline read is not fatal: no baseline is
\* recorded, begin-learn is issued and the session polls; the first poll
\* that returns any present (not None) value ends the session in
\* CodeCaptured with that value.
C6_Original ==
    BaselineFailed =>
        /\ initial_code = None
        /\ Ended => (Len(log) >= 2 /\ log[2].op = "begin")
        /\ (pc = "Returned" /\ timeout > 0) => Polls # {}
        /\ \A i \in Polls :
              Present(log[i].val) =>
                 /\ i = Max(Polls)
                 /\ outcome = "CodeCaptured"
                 /\ code = log[i].val
                 /\ pc = "Returned" => ret = log[i].val

\* C6 (amended): the same, the session ending at the first poll that
\* returns a non-empty value.
C6_NoBaseline ==
    BaselineFailed =>
        /\ initial_code = None
        /\ Ended => (Len(log) >= 2 /\ log[2].op = "begin")
        /\ (pc = "Returned" /\ timeout > 0) => Polls # {}
        /\ \A i \in Polls :
              Truthy(log[i].val) =>
                 /\ i = Max(Polls)
                 /\ outcome = "CodeCaptured"
                 /\ code = log[i].val
                 /\ pc = "Returned" => ret = log[i].val

\* The baseline read failed, a first poll returned nothing and the second
\* poll returned "A", which learn returned.
C6_Witness ==
    /\ BaselineFailed
    /\ pc = "Returned"
    /\ Cardinality(Polls) = 2
    /\ log[Min(Polls)].val = None
    /\ ret = Some("A")

\* C7: every learn session terminates: once learn is entered it returns or
\* raises, whatever the reads return, the clock advancing by the poll
\* interval at every sleep.
C7_Terminates == (pc = "ReadBaseline") ~> Ended

\* A session that ran the poll loop until the deadline, with as many polls
\* as the timeout allows, and returned.
C7_Witness ==
    /\ pc = "Returned"
    /\ timeout = MaxTimeout
    /\ Cardinality(Polls) = MaxTimeout
    /\ outcome = "TimedOut"

\* The supported encodings of each kind as the claim lists them.
ClaimEncodings ==
    ("Broadlink" :> {"Base64", "Hex", "Pronto"})
    @@ ("Xiaomi" :> {"Pronto", "Raw"})
    @@ ("MQTT" :> {"Raw"})
    @@ ("LOOKin" :> {"Pronto", "Raw"})
    @@ ("ESPHome" :> {"Raw"})
    @@ ("ZHA" :> {"Base64", "Raw"})

\* C8: a controller that exists has an encoding of its kind's supported
\* set; construction with another encoding fails with the encoding error,
\* yields no controller and issues no call.
C8_EncodingValidated ==
    /\ controller # None =>
          controller[1].encoding \in ClaimEncodings[controller[1].controller]
    /\ (/\ ctorArgs # None
        /\ ctorArgs[1].kind \in DOMAIN ClaimEncodings
        /\ ctorArgs[1].encoding \notin ClaimEncodings[ctorArgs[1].kind]) =>
          (ctorExc = ExcEncoding /\ controller = None /\ log = <<>>)

\* Xiaomi was asked for with Base64 and the construction failed.
C8_Witness ==
    /\ ctorArgs = Some([kind |-> "Xiaomi", encoding |-> "Base64"])
    /\ ctorExc = ExcEncoding
    /\ controller = None

\* The variant class of each registered kind.
ClaimVariant ==
    ("Broadlink" :> "BroadlinkController")
    @@ ("Xiaomi" :> "XiaomiController")
    @@ ("MQTT" :> "MQTTController")
    @@ ("LOOKin" :> "LookinController")
    @@ ("ESPHome" :> "ESPHomeController")
    @@ ("ZHA" :> "ZHAController")

\* C9: get_controller fails closed: an unregistered kind string fails with
\* the controller error and constructs nothing; a registered kind gets its
\* own variant, constructed exactly when the encoding validation passes.
C9_FailsClosed ==
    ctorArgs # None =>
        LET kind == ctorArgs[1].kind
            encoding == ctorArgs[1].encoding
        IN IF kind \notin DOMAIN ClaimVariant
           THEN ctorExc = ExcController /\ controller = None
           ELSE IF encoding \in supported_encodings(ClaimVariant[kind])
                THEN /\ ctorExc = NoExc
                     /\ controller = Some([cls |-> ClaimVariant[kind],
                                           controller |-> kind,
                                           encoding |-> encoding])
                ELSE ctorExc = ExcEncoding /\ controller = None

\* An unregistered kind was asked for with an encoding every kind but two
\* accepts, and nothing was constructed.
C9_Witness ==
    /\ ctorArgs = Some([kind |-> "Tuya", encoding |-> "Raw"])
    /\ ctorExc = ExcController
    /\ controller = None

\* The k-th 16-bit word (k >= 1) of an even-length byte string.
WordAt(b, k) == b[2 * k - 1] * 256 + b[2 * k]

\* C10: on an input of n 16-bit words pronto2lirc raises ValueError
\* (MalformedCode) and returns no pulses when the first word is nonzero,
\* and when n differs from 4 + 2 * (codes[2] + codes[3]).
C10_Malformed ==
    (ppc = "done" /\ Len(pronto) % 2 = 0) =>
        LET n == Len(pronto) \div 2 IN
        /\ (n >= 1 /\ WordAt(pronto, 1) # 0) =>
              presult = [status |-> "ValueError", pulses |-> <<>>]
        /\ (n >= 4 /\ n # 4 + 2 * (WordAt(pronto, 3) + WordAt(pronto, 4))) =>
              presult = [status |-> "ValueError", pulses |-> <<>>]

\* A six-word input that starts with 0000 and declares two pairs was
\* rejected.
C10_Witness ==
    /\ ppc = "done"
    /\ Len(pronto) = 12
    /\ WordAt(pronto, 1) = 0
    /\ WordAt(pronto, 3) + WordAt(pronto, 4) = 2
    /\ presult.status = "ValueError"

\* C11: an even-length input of n >= 4 words that passes both preamble
\* checks (first word 0, n = 4 + 2 * (codes[2] + codes[3])) is translated
\* successfully into n - 4 pulses.
C11_ValidSucceeds ==
    (/\ ppc = "done"
     /\ Len(pronto) % 2 = 0
     /\ Len(pronto) >= 8
     /\ WordAt(pronto, 1) = 0
     /\ Len(pronto) \div 2 = 4 + 2 * (WordAt(pronto, 3) + WordAt(pronto, 4))) =>
        /\ presult.status = "ok"
        /\ Len(presult.pulses) = Len(pronto) \div 2 - 4

\* The exact value x * 0.241246 lies between q and q + 1, r millionths
\* above q (x * 241246 = q * 1000000 + r); computed from x * 241 and
\* x * 246 so that no intermediate value leaves the 32-bit integers.
ScaledQuot(x) ==
    ((x * 241) \div 1000) + (((x * 241) % 1000) * 1000 + x * 246) \div 1000000
ScaledRem(x) ==
    (((x * 241) % 1000) * 1000 + x * 246) % 1000000

\* p is round(x * 0.241246), a half rounded to the even neighbour.
IsRounded(p, x) ==
    \/ 2 * ScaledRem(x) < 1000000 /\ p = ScaledQuot(x)
    \/ 2 * ScaledRem(x) > 1000000 /\ p = ScaledQuot(x) + 1
    \/ /\ 2 * ScaledRem(x) = 1000000
       /\ p \in {ScaledQuot(x), ScaledQuot(x) + 1}
       /\ p % 2 = 0

\* p is an integer nearest to x * 0.241246 (either neighbour of a half).
IsNearest(p, x) ==
    \/ 2 * ScaledRem(x) <= 1000000 /\ p = ScaledQuot(x)
    \/ 2 * ScaledRem(x) >= 1000000 /\ p = ScaledQuot(x) + 1

\* C12 (as stated): for every accepted input, pulses[i] =
\* round(codes[4+i] * codes[1] * 0.241246) for each i, in the order of the
\* entries; the words [0,100,1,0,17,25] give [410, 603].
C12_Original ==
    (ppc = "done" /\ presult.status = "ok" /\ Len(pronto) % 2 = 0) =>
        /\ Len(presult.pulses) = Len(pronto) \div 2 - 4
        /\ \A i \in 1 .. Len(presult.pulses) :
              IsRounded(presult.pulses[i],
                        WordAt(pronto, 4 + i) * WordAt(pronto, 2))
        /\ pronto = WordsToBytes(<<0, 100, 1, 0, 17, 25>>) =>
              presult.pulses = <<410, 603>>

\* C12 (amended): for every accepted input, pulses[i] is an integer nearest
\* to codes[4+i] * codes[1] * 0.241246 for each i, in the order of the
\* entries; when that product is exactly halfway between two integers the
\* result is one of the two neighbours, not necessarily the rounded one;
\* the words [0,100,1,0,17,25] give [410, 603].
C12_NearestPulse ==
    (ppc = "done" /\ presult.status = "ok" /\ Len(pronto) % 2 = 0) =>
        /\ Len(presult.pulses) = Len(pronto) \div 2 - 4
        /\ \A i \in 1 .. Len(presult.pulses) :
              IsNearest(presult.pulses[i],
                        WordAt(pronto, 4 + i) * WordAt(pronto, 2))
        /\ pronto = WordsToBytes(<<0, 100, 1, 0, 17, 25>>) =>
              presult.pulses = <<410, 603>>

\* The worked example was translated.
C12_Witness ==
    /\ ppc = "done"
    /\ pronto = WordsToBytes(<<0, 100, 1, 0, 17, 25>>)
    /\ presult = [status |-> "ok", pulses |-> <<410, 603>>]

\* ------------------------------------------------------- packet claims
\* The scaled value of a pulse, floor(p * 269 / 8192), and the bytes the
\* packet format holds for it, written from the format's description.
Scaled(p) == (p * 269) \div 8192
EmitBytes(p) ==
    IF Scaled(p) < 256 THEN <<Scaled(p)>>
    ELSE <<0, Scaled(p) \div 256, Scaled(p) % 256>>
RECURSIVE EmitAll(_)
EmitAll(ps) ==
    IF ps = <<>> THEN <<>> ELSE EmitBytes(ps[1]) \o EmitAll(Tail(ps))
Packed == lircPc = "done" /\ lircOut.status = "ok"

\* C13: for every pulse sequence the returned packet has a length L with
\* (L + 4) % 16 = 0; the bytes after the trailer are between 0 and 15
\* bytes, all zero, and there are none when the unpadded length plus 4 is
\* already a multiple of 16.
C13_PaddedTo16 ==
    Packed =>
        LET packet == lircOut.packet
            unpadded == 6 + Len(EmitAll(lircIn))
            k == Len(packet) - unpadded
        IN /\ (Len(packet) + 4) % 16 = 0
           /\ k \in 0 .. 15
           /\ \A i \in unpadded + 1 .. Len(packet) : packet[i] = 0
           /\ ((unpadded + 4) % 16 = 0) => k = 0

\* Two three-byte pulses: 12 bytes before padding, and nothing appended.
C13_Witness ==
    /\ Packed
    /\ lircIn = <<7797, 7797>>
    /\ Len(lircOut.packet) = 12
    /\ lircOut.packet[11] = 13
    /\ lircOut.packet[12] = 5

\* C14: for every pulse sequence the packet is 0x26 0x00, then the number
\* of array bytes as a little-endian 16-bit value, then the array, then
\* 0x0D 0x05 directly after the array; [410, 603] gives exactly
\* 26 00 02 00 0D 13 0D 05 00 00 00 00.
C14_Layout ==
    Packed =>
        LET packet == lircOut.packet
            n == Len(EmitAll(lircIn))
        IN /\ Len(packet) >= 6 + n
           /\ packet[1] = 38
           /\ packet[2] = 0
           /\ packet[3] + 256 * packet[4] = n
           /\ packet[3] \in 0 .. 255
           /\ SubSeq(packet, 5, 4 + n) = EmitAll(lircIn)
           /\ packet[5 + n] = 13
           /\ packet[6 + n] = 5
           /\ lircIn = <<410, 603>> =>
                 packet = <<38, 0, 2, 0, 13, 19, 13, 5, 0, 0, 0, 0>>

\* The worked example was packed.
C14_Witness ==
    /\ lircPc = "done"
    /\ lircIn = <<410, 603>>
    /\ lircOut = [status |-> "ok",
                  packet |-> <<38, 0, 2, 0, 13, 19, 13, 5, 0, 0, 0, 0>>]

IsBroadlink == controller # None /\ controller[1].cls = "BroadlinkController"
SinkOf(i) == {j \in 1 .. Len(sink) : sink[j].call = i}
TokensOf(command) == command.toks

\* The bytes a token stands for, and whether it stands for any: decoded
\* hexadecimal digits for Hex, the packet of its pulses for Pronto.
ProntoBytes(tok) == HexPairs(RemoveSpaces(tok))
Translates(encoding, tok) ==
    CASE encoding = ENC_HEX -> IsHex(tok)
      [] encoding = ENC_PRONTO ->
            /\ IsHex(RemoveSpaces(tok))
            /\ pronto2lirc(ProntoBytes(tok)).status = "ok"
            /\ lirc2broadlink(pronto2lirc(ProntoBytes(tok)).pulses).status
                  = "ok"
      [] OTHER -> TRUE
Payload(encoding, tok) ==
    CASE encoding = ENC_HEX -> b64encode(HexPairs(tok))
      [] encoding = ENC_PRONTO ->
            b64encode(
                lirc2broadlink(pronto2lirc(ProntoBytes(tok)).pulses).packet)
      [] OTHER -> tok

\* C16: a BroadlinkController send on a command of k tokens issues one
\* dispatch carrying exactly k tokens in the input order, each "b64:"
\* followed by the base64 of the decoded hex bytes (Hex), the token
\* unchanged (Base64) or the base64 of lirc2broadlink(pronto2lirc(token))
\* (Pronto); send("00ff") with Hex dispatches the single token "b64:AP8=".
C16_PrefixedTokens ==
    IsBroadlink =>
        \A i \in 1 .. Len(sends) :
            LET toks == TokensOf(sends[i].arg)
                encoding == controller[1].encoding
            IN (\A k \in 1 .. Len(toks) : Translates(encoding, toks[k])) =>
                  /\ Cardinality(SinkOf(i)) = 1
                  /\ \A j \in SinkOf(i) :
                        /\ Len(sink[j].req.data.command) = Len(toks)
                        /\ \A k \in 1 .. Len(toks) :
                              sink[j].req.data.command[k]
                                 = <<"b", "6", "4", ":">>
                                      \o Payload(encoding, toks[k])
                        /\ (encoding = ENC_HEX
                              /\ sends[i].arg = Single(TokFF)) =>
                              sink[j].req.data.command
                                 = << <<"b", "6", "4", ":",
                                        "A", "P", "8", "=">> >>

\* send("00ff") with Hex was dispatched as the one token "b64:AP8=".
C16_Witness ==
    /\ IsBroadlink
    /\ controller[1].encoding = ENC_HEX
    /\ Len(sends) = 1
    /\ sends[1].arg = Single(TokFF)
    /\ Len(sink) = 1
    /\ sink[1].req.data.command
          = << <<"b", "6", "4", ":", "A", "P", "8", "=">> >>

\* C17: in BroadlinkController.send, when the translation of any token of
\* the command fails (bad hex, nonzero first Pronto word, length mismatch
\* or any other failure inside pronto2lirc or lirc2broadlink), the call
\* fails with the conversion error and nothing is dispatched for that
\* command.
C17_ConversionFailed ==
    IsBroadlink =>
        \A i \in 1 .. Len(sends) :
            LET toks == TokensOf(sends[i].arg) IN
            (\E k \in 1 .. Len(toks) :
                  ~Translates(controller[1].encoding, toks[k])) =>
               /\ sends[i].exc \in {ExcHexConv, ExcProntoConv}
               /\ SinkOf(i) = {}

\* C18: for every controller variant, send(c) with a single token c issues
\* the same calls with the same parameters as send([c]), and fails when
\* send([c]) fails.
C18_SingleAsList ==
    controller # None =>
        \A i \in 1 .. Len(sends) :
            ~sends[i].arg.list =>
               LET listed == Request(controller[1], delay,
                                     List(sends[i].arg.toks))
               IN /\ (listed.exc # NoExc) = (SinkOf(i) = {})
                  /\ \A j \in SinkOf(i) : sink[j].req = listed.req

\* C19: every send call of every controller variant issues at most one
\* call to the transport; it returns without exception only when that call
\* was made and did not raise, and when that call raises, the same error
\* leaves send and no second call is made.
C19_OneDispatch ==
    \A i \in 1 .. Len(sends) :
        /\ Cardinality(SinkOf(i)) <= 1
        /\ sends[i].exc = NoExc =>
              \E j \in SinkOf(i) :
                 /\ sink[j].res \notin TransportErrors
                 /\ sink[j].tr <= sends[i].tr
        /\ \A j \in SinkOf(i) :
              sink[j].res \in TransportErrors => sends[i].exc = sink[j].res

\* A send whose one dispatch raised ended with the transport's error.
C19_Witness ==
    /\ Len(sends) = 1
    /\ Len(sink) = 1
    /\ sink[1].res = "ConnectionError"
    /\ sends[1].exc = "ConnectionError"

\* The stored commands of the names that are keys of the table, in order.
Known(names) == SelectSeq(names, LAMBDA n : n \in DOMAIN commands)
Stored(names) == [k \in 1 .. Len(Known(names)) |-> commands[Known(names)[k]]]
SentArgs == [i \in 1 .. Len(sends) |-> sends[i].arg]

C22_ReadBeforeDeadline ==
    outcome = "CodeCaptured" => log[Max(Polls)].t < end

\* C23: within one learn call the baseline read is the first call,
\* begin-learn is the second and precedes every poll read, each poll read
\* comes at least one poll interval (one time unit) after the call before
\* it, and the end-learn call is the last call: nothing follows it.
C23_CallOrder ==
    /\ pc = "Idle" => log = <<>>
    /\ \A i \in 1 .. Len(log) :
          /\ i = 1 => log[i].op = "read"
          /\ i = 2 => log[i].op = "begin"
          /\ log[i].op = "begin" => i = 2
          /\ log[i].op = "end" => (i = Len(log) /\ i > 2 /\ Ended)
          /\ i \in Polls => (log[2].ok /\ log[i].t >= log[i - 1].t + 1)

\* A session of baseline read, begin-learn, two poll reads and end-learn.
C23_Witness ==
    /\ Ended
    /\ Len(log) = 5
    /\ [i \in 1 .. 5 |-> log[i].op]
          = <<"read", "begin", "read", "read", "end">>
    /\ log[4].t >= log[3].t + 1

\* C24: async_learn_command changes the command table only when learn
\* returned a code: then exactly the entry of the requested name is set to
\* the one-element list of the code and every other entry is unchanged;
\* without a name no learn session is started; when learn times out, is not
\* supported or raises, the table is unchanged and no exception reaches
\* the caller.
C24_TableFrame ==
    /\ entPc # "done" => commands = InitCommands
    /\ entPc = "done" =>
          /\ entExc = NoExc
          /\ ~Truthy(entCmd) => (pc = "Idle" /\ log = <<>>)
          /\ IF pc = "Returned" /\ ret # None
             THEN /\ DOMAIN commands = DOMAIN InitCommands \cup {entCmd[1]}
                  /\ commands[entCmd[1]] = List(<<ret[1]>>)
                  /\ \A n \in DOMAIN InitCommands \ {entCmd[1]} :
                        commands[n] = InitCommands[n]
             ELSE commands = InitCommands

\* The code "B" was learned for the new name "vol"; turn_on is as before.
C24_Witness ==
    /\ entPc = "done"
    /\ entCmd = Some("vol")
    /\ ret = Some("B")
    /\ DOMAIN commands = {"turn_on", "vol"}
    /\ commands["vol"] = List(<<"B">>)
    /\ commands["turn_on"] = InitCommands["turn_on"]

C25_RoundTrip ==
    (/\ controller # None
     /\ controller[1].cls = "ZHAController"
     /\ entPc = "done"
     /\ pc = "Returned"
     /\ ret # None
     /\ cmdArg = Some(Single(entCmd[1]))
     /\ Len(sends) = 1) =>
        /\ SinkOf(1) # {}
        /\ \A j \in SinkOf(1) :
              /\ sink[j].req
                    = Request(controller[1], delay, Single(ret[1])).req
              /\ sink[j].req.data.params.code = Single(ret[1])

\* C26: after component setup and after an entity was added to the host, a
\* call of the learn_command, save_command, delete_command or test_command
\* service with that entity's entity_id finds the entity: the lookup reads
\* the registry slot the entity registered itself in.
C26_ServiceFindsEntity ==
    \A k \in 1 .. Len(svcLog) : svcLog[k].registered => svcLog[k].found

\* Vocabulary of the two-session properties.
ConEnded(s) == sess[s].pc \in {"Returned", "Raised"}
ConReturnedCapture(s) ==
    /\ sess[s].pc = "Returned"
    /\ sess[s].gen >= 1
    /\ sess[s].ret = Some(captured[sess[s].gen])
OwnBaselineAndDeadline(s) ==
    /\ sess[s].initial_code = sess[s].base
    /\ sess[s].begin = "returned" =>
          sess[s].end = sess[s].beginAt + sess[s].timeout
ConTerminates == \A s \in Sessions : (sess[s].pc # "Idle") ~> ConEnded(s)

\* C27 (as stated): of two concurrent learn calls on one device, each keeps
\* its own baseline and deadline, each ends, each ended call has issued
\* exactly one end-learn call, and no captured code is returned by both.
C27_Original ==
    /\ [](\A s \in Sessions :
            /\ OwnBaselineAndDeadline(s)
            /\ ConEnded(s) => sess[s].ends = 1)
    /\ [](\A s, t \in Sessions :
            s # t /\ ConReturnedCapture(s) /\ ConReturnedCapture(t) =>
                sess[s].gen # sess[t].gen)
    /\ ConTerminates

\* C27 (amended): of two concurrent learn calls on one device, each keeps
\* its own baseline and deadline, each ends, and each ended call has issued
\* exactly one end-learn call when its begin-learn call returned and none
\* when it raised; a call returns only a value that one of its own polls
\* read and that differs from its own baseline. One captured code can be
\* returned by both calls.
C27_IndependentSessions ==
    /\ [](\A s \in Sessions :
            /\ OwnBaselineAndDeadline(s)
            /\ sess[s].ends <= 1
            /\ ConEnded(s) =>
                  sess[s].ends = IF sess[s].begin = "returned" THEN 1 ELSE 0
            /\ sess[s].pc = "Returned" /\ sess[s].ret # None =>
                  /\ sess[s].ret # sess[s].base
                  /\ sess[s].ret \in sess[s].seen)
    /\ ConTerminates

\* C27 witness: both calls have returned the one code the device captured,
\* each after exactly one end-learn call.
C27_Witness ==
    /\ \A s \in Sessions :
          ConReturnedCapture(s) /\ sess[s].ends = 1
    /\ sess[1].gen = sess[2].gen
    /\ sess[1].ret = sess[2].ret

====
